---- MODULE Spec2Model ----
(***************************************************************************)
(* Finite-field Diffie-Hellman key agreement of src/src/dh.rs: the         *)
(* parameter tables, hex decoding, DhContext::new, compute_public_key,     *)
(* compute_shared_key and agree_ephemeral.                                 *)
(*                                                                         *)
(* dh.rs calls the crate's big-integer arithmetic (arithmetic::bigint,     *)
(* arithmetic::montgomery), which is not part of src/.  Those operations   *)
(* are modelled from their description in spec.md sections 4.2-4.4 and     *)
(* are the definitions under "Big-integer arithmetic" below.               *)
(*                                                                         *)
(* TLC's integers are 32 bits wide, so the contexts of Spec are created    *)
(* over caller-supplied DhParam values (the struct and its fields are pub) *)
(* with one- and two-byte moduli.  The five built-in tables take part with *)
(* their secret_len in TableSpec, which models the part of DhContext::new  *)
(* that prepares the private-exponent bytes.                               *)
(***************************************************************************)
EXTENDS Integers, Sequences, FiniteSets, TLC

VARIABLES
    ctx,        \* Slots -> the DhContext value bound to each caller variable
    last,       \* the record of the last call: its inputs and what it returned
    secretBuf   \* TableSpec: the private-exponent bytes prepared for a built-in table

vars == <<ctx, last, secretBuf>>

----------------------------------------------------------------------------
(* Bounds of the model *)

\* random bytes are drawn from 0..MaxRndByte and 255
MaxRndByte == 2
\* peer public-key strings carry at most MaxPeerLen bytes
MaxPeerLen == 3
\* caller buffers for compute_public_key carry 0..MaxBufLen bytes
MaxBufLen == 2
\* TableSpec: the random bytes for the built-in tables are drawn from 0..MaxTableRnd
MaxTableRnd == 7

Slots == {"A", "B"}

----------------------------------------------------------------------------
(* Constants and parameter tables *)

MAX_PUBLIC_KEY_LEN == 1024
MAX_SECRET_LEN == 64

\* A DhParam holds p and g as hex strings; a string is the sequence of its
\* ASCII codes, as from_hex reads it with as_bytes().
\* The p strings of the built-in tables are 512..2048 hex digits long and are
\* not used by TableSpec; the tables keep their g, secret_len and name.
DHPARAM_FFDHE2048_MUT == [p |-> <<>>, g |-> <<48, 50>>, secret_len |-> (225 + 7) \div 8, name |-> "ffdhe2048"]
DHPARAM_FFDHE2048 == [p |-> <<>>, g |-> <<48, 50>>, secret_len |-> (225 \div 8) + 2, name |-> "ffdhe2048"]
DHPARAM_FFDHE3072 == [p |-> <<>>, g |-> <<48, 50>>, secret_len |-> (275 \div 8) + 2, name |-> "ffdhe3072"]
DHPARAM_FFDHE4096 == [p |-> <<>>, g |-> <<48, 50>>, secret_len |-> (325 \div 8) + 2, name |-> "ffdhe4096"]
DHPARAM_FFDHE6144 == [p |-> <<>>, g |-> <<48, 50>>, secret_len |-> (375 \div 8) + 2, name |-> "ffdhe6144"]
DHPARAM_FFDHE8192 == [p |-> <<>>, g |-> <<48, 50>>, secret_len |-> (400 \div 8) + 2, name |-> "ffdhe8192"]

BuiltinParams ==
    {DHPARAM_FFDHE2048, DHPARAM_FFDHE3072, DHPARAM_FFDHE4096,
     DHPARAM_FFDHE6144, DHPARAM_FFDHE8192}

\* Caller-supplied DhParam values (DhParam and its fields are pub, and
\* DhContext::new takes any &'static DhParam).
\*   "17"   = 23,  a safe prime, one byte wide
\*   "01D3" = 467, a safe prime, two bytes wide
CallerParams ==
    { [p |-> <<49, 55>>,         g |-> <<48, 50>>, secret_len |-> 1, name |-> "p23"],
      [p |-> <<48, 49, 68, 51>>, g |-> <<48, 50>>, secret_len |-> 2, name |-> "p467"],
      \* "107": odd number of digits
      [p |-> <<49, 48, 55>>,     g |-> <<48, 50>>, secret_len |-> 1, name |-> "p_oddlen"],
      \* "1G": not a hex digit
      [p |-> <<49, 71>>,         g |-> <<48, 50>>, secret_len |-> 1, name |-> "p_baddigit"],
      \* "16" = 22: an even modulus
      [p |-> <<49, 54>>,         g |-> <<48, 50>>, secret_len |-> 1, name |-> "p_even"],
      \* g = "0G": not a hex digit
      [p |-> <<49, 55>>,         g |-> <<48, 71>>, secret_len |-> 1, name |-> "g_baddigit"],
      \* g = "fF" = 255 >= p
      [p |-> <<49, 55>>,         g |-> <<102, 70>>, secret_len |-> 1, name |-> "g_toolarge"] }

----------------------------------------------------------------------------
(* Hex decoding *)

HexErr == [ok |-> FALSE, v |-> <<>>]

from_hex_digit(d) ==
    IF d >= 48 /\ d <= 57 THEN [ok |-> TRUE, v |-> d - 48]
    ELSE IF d >= 97 /\ d <= 102 THEN [ok |-> TRUE, v |-> d - 97 + 10]
    ELSE IF d >= 65 /\ d <= 70 THEN [ok |-> TRUE, v |-> d - 65 + 10]
    ELSE [ok |-> FALSE, v |-> 0]

\* the loop of from_hex over chunks(2); (hi * 0x10) | lo = hi * 16 + lo for lo < 16
RECURSIVE from_hex_chunks(_)
from_hex_chunks(s) ==
    IF s = <<>> THEN [ok |-> TRUE, v |-> <<>>]
    ELSE LET hi == from_hex_digit(s[1])
             lo == from_hex_digit(s[2])
         IN  IF ~hi.ok THEN HexErr
             ELSE IF ~lo.ok THEN HexErr
             ELSE LET rest == from_hex_chunks(SubSeq(s, 3, Len(s)))
                  IN  IF ~rest.ok THEN HexErr
                      ELSE [ok |-> TRUE, v |-> <<hi.v * 16 + lo.v>> \o rest.v]

from_hex(hex_str) ==
    IF Len(hex_str) % 2 # 0 THEN HexErr ELSE from_hex_chunks(hex_str)

----------------------------------------------------------------------------
(* Big-integer arithmetic (arithmetic::bigint, arithmetic::montgomery) *)

\* the value of a big-endian byte string
RECURSIVE BeValue(_)
BeValue(bytes) ==
    IF bytes = <<>> THEN 0
    ELSE BeValue(SubSeq(bytes, 1, Len(bytes) - 1)) * 256 + bytes[Len(bytes)]

\* Elem::to_bytes_be: minimal-length big-endian bytes (one zero byte for 0)
RECURSIVE to_bytes_be(_)
to_bytes_be(v) ==
    IF v < 256 THEN <<v>> ELSE to_bytes_be(v \div 256) \o <<v % 256>>

ModErr == [ok |-> FALSE, n |-> 0, width |-> 0]

\* Modulus::from_be_bytes_with_bit_length
Modulus_from_be_bytes(bytes) ==
    IF Len(bytes) = 0 \/ Len(bytes) > MAX_PUBLIC_KEY_LEN THEN ModErr
    ELSE IF BeValue(bytes) % 2 = 0 THEN ModErr
    ELSE [ok |-> TRUE, n |-> BeValue(bytes), width |-> Len(bytes)]

ElemErr == [ok |-> FALSE, v |-> 0, n |-> 0]

\* Elem::from_be_bytes_padded: an element of m in the standard domain
Elem_from_be_bytes_padded(bytes, m) ==
    IF Len(bytes) > m.width THEN ElemErr
    ELSE IF BeValue(bytes) >= m.n THEN ElemErr
    ELSE [ok |-> TRUE, v |-> BeValue(bytes), n |-> m.n]

\* PrivateExponent::from_be_bytes_padded: the same path, kept as a value
PrivateExponent_from_be_bytes_padded(bytes, m) ==
    Elem_from_be_bytes_padded(bytes, m)

RECURSIVE Pow256Mod(_, _)
Pow256Mod(k, n) == IF k = 0 THEN 1 % n ELSE (Pow256Mod(k - 1, n) * 256) % n

\* <<g, x, y>> with a * x + b * y = g = gcd(a, b)
RECURSIVE Egcd(_, _)
Egcd(a, b) ==
    IF b = 0 THEN <<a, 1, 0>>
    ELSE LET r == Egcd(b, a % b) IN <<r[1], r[3], r[2] - (a \div b) * r[3]>>

\* R = 256^width mod n, and its inverse mod n (n is odd)
MontR(m) == Pow256Mod(m.width, m.n)
MontRInv(m) == ((Egcd(MontR(m), m.n)[2] % m.n) + m.n) % m.n

\* Montgomery product a * b * R^-1 mod n
MontMul(a, b, rinv, n) == (((a * b) % n) * rinv) % n

\* m.oneRR(): R * R mod n
oneRR(m) == (MontR(m) * MontR(m)) % m.n

\* elem_mul(a, b, m)
elem_mul(a, b, m) == [ok |-> TRUE, v |-> MontMul(a, b.v, MontRInv(m), m.n), n |-> b.n]

\* square-and-multiply over the bits of e, every product in the Montgomery domain
RECURSIVE MontExp(_, _, _, _, _)
MontExp(base, e, oneR, rinv, n) ==
    IF e = 0 THEN oneR
    ELSE LET h  == MontExp(base, e \div 2, oneR, rinv, n)
             sq == MontMul(h, h, rinv, n)
         IN  IF e % 2 = 1 THEN MontMul(sq, base, rinv, n) ELSE sq

\* elem_exp_consttime(base, exponent, m): base is Montgomery-encoded, the
\* result is decoded; fails when base belongs to another modulus
elem_exp_consttime(base, e, m) ==
    IF base.n # m.n THEN ElemErr
    ELSE LET rinv == MontRInv(m)
             acc  == MontExp(base.v, e, MontR(m), rinv, m.n)
         IN  [ok |-> TRUE, v |-> MontMul(acc, 1, rinv, m.n), n |-> m.n]

----------------------------------------------------------------------------
(* dh.rs *)

into_encoded_MUT(a, m) == a
into_encoded(a, m) == elem_mul(oneRR(m), a, m)


\* the context of a caller variable that holds none
NoCtx == [state |-> "None", param |-> "-", a |-> 0, ap |-> 0, p |-> 0, width |-> 0]

\* the Modulus of a context
ModulusOf(cx) == [ok |-> TRUE, n |-> cx.p, width |-> cx.width]

\* rng.fill(a): every byte of the slice is overwritten from the source, or Err
rng_fill(a, rng) ==
    IF ~rng.ok THEN [ok |-> FALSE, v |-> a]
    ELSE [ok |-> TRUE, v |-> [i \in 1..Len(a) |-> rng.stream[i]]]

\* a[param.secret_len-1] |= 1
ForceOdd_MUT(a, secret_len) ==
    [a EXCEPT ![1] = IF @ % 2 = 0 THEN @ + 1 ELSE @]
ForceOdd(a, secret_len) ==
    [a EXCEPT ![secret_len] = IF @ % 2 = 0 THEN @ + 1 ELSE @]

\* DhContext::new, the private-exponent bytes:
\*   let mut a = [0u8; MAX_SECRET_LEN]; let a = &mut a[0..param.secret_len];
\*   rng.fill(a).ok()?; a[param.secret_len-1] |= 1;
\* The slice panics past the end of the array, the index panics on an empty slice.
secret_bytes(param, rng) ==
    IF param.secret_len > MAX_SECRET_LEN THEN [kind |-> "Panic", v |-> <<>>]
    ELSE LET a == SubSeq([i \in 1..MAX_SECRET_LEN |-> 0], 1, param.secret_len)
             f == rng_fill(a, rng)
         IN  IF ~f.ok THEN [kind |-> "None", v |-> <<>>]
             ELSE IF param.secret_len = 0 THEN [kind |-> "Panic", v |-> <<>>]
             ELSE [kind |-> "Ok", v |-> ForceOdd(f.v, param.secret_len)]

NewFail(kind, step) == [kind |-> kind, step |-> step, cx |-> NoCtx]

\* DhContext::new: kind is "Some" (cx is the context), "None" or "Panic";
\* step names the step that ended the call
DhContext_new(param, rng) ==
    LET a == secret_bytes(param, rng)
    IN  IF a.kind = "Panic" THEN NewFail("Panic", "secret")
        ELSE IF a.kind = "None" THEN NewFail("None", "fill")
        ELSE
        LET inputhex == from_hex(param.p)
        IN  IF ~inputhex.ok THEN NewFail("None", "hex_p")
            ELSE
            LET p == Modulus_from_be_bytes(inputhex.v)
            IN  IF ~p.ok THEN NewFail("None", "modulus")
                ELSE
                LET e == PrivateExponent_from_be_bytes_padded(a.v, p)
                IN  IF ~e.ok THEN NewFail("None", "exponent")
                    ELSE
                    LET ghex == from_hex(param.g)
                    IN  \* from_hex(param.g).unwrap()
                        IF ~ghex.ok THEN NewFail("Panic", "hex_g")
                        ELSE
                        LET g == Elem_from_be_bytes_padded(ghex.v, p)
                        IN  IF ~g.ok THEN NewFail("None", "generator")
                            ELSE
                            LET ap == elem_exp_consttime(into_encoded(g, p), e.v, p)
                            IN  IF ~ap.ok THEN NewFail("None", "exp")
                                ELSE [kind |-> "Some", step |-> "done",
                                      cx |-> [state |-> "Active", param |-> param.name,
                                              a |-> e.v, ap |-> ap.v,
                                              p |-> p.n, width |-> p.width]]

\* compute_public_key(&self, buffer): &mut buffer[0..len] panics when the
\* buffer is shorter than the key; copy_from_slice writes the prefix.
\* val is the returned slice, buf the caller's buffer after the call.
compute_public_key(cx, buffer) ==
    LET pubkey == to_bytes_be(cx.ap)
        len    == Len(pubkey)
    IN  IF len > Len(buffer)
        THEN [kind |-> "Panic", val |-> <<>>, buf |-> buffer, cx |-> cx]
        ELSE [kind |-> "Ok", val |-> pubkey,
              buf |-> pubkey \o SubSeq(buffer, len + 1, Len(buffer)), cx |-> cx]

\* lines 316-317: the peer element raised to the context's private exponent
SharedElem_MUT(cx, peer) ==
    elem_exp_consttime(into_encoded(peer, ModulusOf(cx)), cx.a - 1, ModulusOf(cx))
SharedElem(cx, peer) ==
    elem_exp_consttime(into_encoded(peer, ModulusOf(cx)), cx.a, ModulusOf(cx))

\* compute_shared_key(&self, peer_public_key): both results are unwrapped
compute_shared_key_MUT(cx, peer_public_key) ==
    LET peer == Elem_from_be_bytes_padded(peer_public_key, ModulusOf(cx))
    IN  IF ~peer.ok THEN [kind |-> "Panic", val |-> <<>>, cx |-> cx]
        ELSE LET r == SharedElem(cx, peer)
             IN  IF ~r.ok THEN [kind |-> "Panic", val |-> <<>>, cx |-> cx]
                 ELSE [kind |-> "Ok", val |-> to_bytes_be(r.v),
                       cx |-> [cx EXCEPT !.ap = r.v]]
compute_shared_key(cx, peer_public_key) ==
    LET peer == Elem_from_be_bytes_padded(peer_public_key, ModulusOf(cx))
    IN  IF ~peer.ok THEN [kind |-> "Panic", val |-> <<>>, cx |-> cx]
        ELSE LET r == SharedElem(cx, peer)
             IN  IF ~r.ok THEN [kind |-> "Panic", val |-> <<>>, cx |-> cx]
                 ELSE [kind |-> "Ok", val |-> to_bytes_be(r.v), cx |-> cx]

\* the key-derivation callbacks a caller passes to agree_ephemeral
Kdfs == {"none", "copy"}

\* F: FnOnce(&[u8]) -> Option<R>
KdfApply(kdf, secret) ==
    IF kdf = "none" THEN [some |-> FALSE, v |-> <<>>]
    ELSE [some |-> TRUE, v |-> secret]

\* my_private_key: DhContext is taken by value: the caller's variable is moved
\* from and the value is dropped when agree_ephemeral returns
Moved_MUT(cx) == cx
Moved(cx) == [NoCtx EXCEPT !.state = "Consumed"]

\* agree_ephemeral(my_private_key, peer_public_key, kdf)
agree_ephemeral_MUT(cx, peer_public_key, kdf) ==
    LET secret_key == compute_shared_key(cx, peer_public_key)
    IN  IF secret_key.kind = "Panic"
        THEN [kind |-> "Panic", val |-> <<>>, kdfCalls |-> 0, kdfArg |-> <<>>]
        ELSE LET r == KdfApply(kdf, SubSeq(secret_key.val, 2, Len(secret_key.val)))
             IN  [kind |-> IF r.some THEN "Some" ELSE "None", val |-> r.v,
                  kdfCalls |-> 1,
                  kdfArg |-> SubSeq(secret_key.val, 2, Len(secret_key.val))]
agree_ephemeral(cx, peer_public_key, kdf) ==
    LET secret_key == compute_shared_key(cx, peer_public_key)
    IN  IF secret_key.kind = "Panic"
        THEN [kind |-> "Panic", val |-> <<>>, kdfCalls |-> 0, kdfArg |-> <<>>]
        ELSE LET r == KdfApply(kdf, secret_key.val)
             IN  [kind |-> IF r.some THEN "Some" ELSE "None", val |-> r.v,
                  kdfCalls |-> 1, kdfArg |-> secret_key.val]

----------------------------------------------------------------------------
(* Inputs *)

RndBytes == (0..MaxRndByte) \cup {255}

\* the longest secret of the caller-supplied parameter sets
RndStreamLen ==
    CHOOSE n \in 1..MAX_SECRET_LEN :
        /\ \A q \in CallerParams : q.secret_len <= n
        /\ \E q \in CallerParams : q.secret_len = n

\* the random source: it fails, or delivers a stream of bytes
Rngs ==
    {[ok |-> FALSE, stream |-> <<>>]}
    \cup {[ok |-> TRUE, stream |-> s] : s \in [1..RndStreamLen -> RndBytes]}

\* the moduli of the caller-supplied parameter sets that decode
Moduli ==
    {BeValue(from_hex(q.p).v) : q \in {r \in CallerParams : from_hex(r.p).ok}}

\* v as big-endian bytes left-padded with zeros to l bytes
RECURSIVE Padded(_, _)
Padded(bytes, l) == IF Len(bytes) >= l THEN bytes ELSE Padded(<<0>> \o bytes, l)

\* peer strings a caller may pass besides a published key: the empty string
\* and, for every modulus n, the values 0, 1, n-1 and n at every length
AdvPeers ==
    {<<>>}
    \cup {Padded(to_bytes_be(v), l) :
            v \in {0, 1} \cup {n - 1 : n \in Moduli} \cup Moduli,
            l \in 1..MaxPeerLen}

\* the bytes compute_public_key returns for cx in a buffer as wide as the modulus
PublicKeyOf(cx) ==
    compute_public_key(cx, [i \in 1..cx.width |-> 0]).val

PeerInputs ==
    AdvPeers \cup {PublicKeyOf(ctx[d]) : d \in {e \in Slots : ctx[e].state = "Active"}}

\* caller buffers: [0u8; len]
BufInputs == {[i \in 1..l |-> 0] : l \in 0..MaxBufLen}

NoCall ==
    [op |-> "init", c |-> "-", param |-> "-", arg |-> <<>>, rngok |-> TRUE,
     kdf |-> "-", kind |-> "-", step |-> "-", val |-> <<>>, buf |-> <<>>,
     kdfCalls |-> 0, kdfArg |-> <<>>]

NoSecret == [param |-> "-", kind |-> "-", bytes |-> <<>>]

----------------------------------------------------------------------------
(* The state machine *)

Init ==
    /\ ctx = [c \in Slots |-> NoCtx]
    /\ last = NoCall
    /\ secretBuf = NoSecret

\* let c = DhContext::new(param, &rng);
New(c, param, rng) ==
    /\ ctx[c].state = "None"
    /\ LET r == DhContext_new(param, rng)
       IN  /\ ctx' = [ctx EXCEPT ![c] = r.cx]
           /\ last' = [NoCall EXCEPT !.op = "new", !.c = c, !.param = param.name,
                                     !.arg = rng.stream, !.rngok = rng.ok,
                                     !.kind = r.kind, !.step = r.step]
    /\ UNCHANGED secretBuf

\* c.compute_public_key(&mut buffer[..])
ComputePublicKey(c, buffer) ==
    /\ ctx[c].state = "Active"
    /\ LET r == compute_public_key(ctx[c], buffer)
       IN  /\ ctx' = [ctx EXCEPT ![c] = r.cx]
           /\ last' = [NoCall EXCEPT !.op = "public", !.c = c, !.arg = buffer,
                                     !.kind = r.kind, !.val = r.val, !.buf = r.buf]
    /\ UNCHANGED secretBuf

\* c.compute_shared_key(peer)
ComputeSharedKey(c, peer) ==
    /\ ctx[c].state = "Active"
    /\ LET r == compute_shared_key(ctx[c], peer)
       IN  /\ ctx' = [ctx EXCEPT ![c] = r.cx]
           /\ last' = [NoCall EXCEPT !.op = "shared", !.c = c, !.arg = peer,
                                     !.kind = r.kind, !.val = r.val]
    /\ UNCHANGED secretBuf

\* agree_ephemeral(c, peer, kdf): c is moved into the call
AgreeEphemeral(c, peer, kdf) ==
    /\ ctx[c].state = "Active"
    /\ LET r == agree_ephemeral(ctx[c], peer, kdf)
       IN  /\ ctx' = [ctx EXCEPT ![c] = Moved(@)]
           /\ last' = [NoCall EXCEPT !.op = "agree", !.c = c, !.arg = peer,
                                     !.kdf = kdf, !.kind = r.kind, !.val = r.val,
                                     !.kdfCalls = r.kdfCalls, !.kdfArg = r.kdfArg]
    /\ UNCHANGED secretBuf

Next ==
    \/ \E c \in Slots, param \in CallerParams, rng \in Rngs : New(c, param, rng)
    \/ \E c \in Slots, buffer \in BufInputs : ComputePublicKey(c, buffer)
    \/ \E c \in Slots, peer \in PeerInputs : ComputeSharedKey(c, peer)
    \/ \E c \in Slots, peer \in PeerInputs, kdf \in Kdfs : AgreeEphemeral(c, peer, kdf)

Spec == Init /\ [][Next]_vars


----------------------------------------------------------------------------
(* The built-in tables: the private-exponent bytes DhContext::new prepares *)

\* the random source asked for up to MAX_SECRET_LEN bytes
TableRngs ==
    {[ok |-> FALSE, stream |-> <<>>]}
    \cup {[ok |-> TRUE,
           stream |-> [i \in 1..MAX_SECRET_LEN |-> IF i % 2 = 1 THEN x ELSE y]] :
            x \in 0..MaxTableRnd, y \in 0..MaxTableRnd}

\* DhContext::new(param, &rng) up to a[param.secret_len-1] |= 1
NewSecret(param, rng) ==
    /\ LET a == secret_bytes(param, rng)
       IN  secretBuf' = [param |-> param.name, kind |-> a.kind, bytes |-> a.v]
    /\ UNCHANGED <<ctx, last>>

TableNext == \E param \in BuiltinParams, rng \in TableRngs : NewSecret(param, rng)

TableSpec == Init /\ [][TableNext]_vars

----------------------------------------------------------------------------
(* Reference arithmetic for the properties *)

\* b^e mod n on plain integers
RECURSIVE ModExp(_, _, _)
ModExp(b, e, n) ==
    IF e = 0 THEN 1 % n
    ELSE LET h == ModExp(b, e \div 2, n)
         IN  IF e % 2 = 1 THEN (((h * h) % n) * b) % n ELSE (h * h) % n

ParamByName(nm) == CHOOSE q \in CallerParams : q.name = nm


\* b with its least-significant bit set
OrOne(b) == 2 * (b \div 2) + 1

\* whether the padded element parser accepts bytes under the modulus of cx
Parseable(bytes, cx) == Len(bytes) <= cx.width /\ BeValue(bytes) < cx.p

----------------------------------------------------------------------------
(* Properties *)

\* C1: two contexts created with the same parameter set agree: each one's
\* compute_shared_key on the public-key bytes compute_public_key writes for
\* the other succeeds, and the two secrets are equal byte for byte.
C1_Agreement ==
    \A x \in Slots, y \in Slots :
        (x # y /\ ctx[x].state = "Active" /\ ctx[y].state = "Active"
               /\ ctx[x].param = ctx[y].param)
        => LET kx == compute_shared_key(ctx[x], PublicKeyOf(ctx[y]))
               ky == compute_shared_key(ctx[y], PublicKeyOf(ctx[x]))
           IN  /\ kx.kind = "Ok"
               /\ ky.kind = "Ok"
               /\ kx.val = ky.val

\* two contexts over the two-byte modulus with different exponents, one of
\* whose public keys is written shorter than the modulus
C1_Witness ==
    \E x \in Slots, y \in Slots :
        /\ x # y
        /\ ctx[x].state = "Active" /\ ctx[y].state = "Active"
        /\ ctx[x].param = "p467" /\ ctx[y].param = "p467"
        /\ ctx[x].a # ctx[y].a
        /\ Len(PublicKeyOf(ctx[x])) < ctx[x].width
        /\ Len(PublicKeyOf(ctx[y])) = ctx[y].width

\* C2: a context is Active from its creation; agree_ephemeral makes it
\* Consumed whatever it returns; a Consumed context stays Consumed and no
\* later call is made on it.
C2_ConsumedTerminal ==
    /\ []((last.op = "new" /\ last.kind = "Some") => ctx[last.c].state = "Active")
    /\ [](last.op = "agree" => ctx[last.c].state = "Consumed")
    /\ [][\A c \in Slots :
            ctx[c].state = "Consumed"
            => /\ ctx'[c] = ctx[c]
               /\ (last' # last => last'.c # c)]_vars

\* a context was consumed by an agree_ephemeral that did not return, and the
\* other context was used afterwards
C2_Witness ==
    \E c \in Slots, d \in Slots :
        /\ c # d
        /\ ctx[c].state = "Consumed"
        /\ last.op = "shared" /\ last.c = d /\ last.kind = "Ok"

\* C3 (as claimed): compute_shared_key on peer bytes the padded element
\* parser rejects returns an explicit error value.
C3_PeerRejectedWithError ==
    (last.op = "shared" /\ ~Parseable(last.arg, ctx[last.c]))
    => last.kind = "Err"

\* C4 (as claimed): compute_public_key with a buffer shorter than the key
\* returns an explicit buffer-too-small error and changes nothing; with a
\* buffer long enough it writes the key into the prefix and returns it.
C4_BufferTooSmallError ==
    last.op = "public"
    => LET key == to_bytes_be(ctx[last.c].ap)
       IN  IF Len(last.arg) < Len(key)
           THEN last.kind = "Err" /\ last.buf = last.arg
           ELSE /\ last.kind = "Ok"
                /\ last.val = key
                /\ SubSeq(last.buf, 1, Len(key)) = key
                /\ Len(last.buf) = Len(last.arg)

\* C5 (as claimed): DhContext::new returns a context, or the explicit
\* failure value and no context, whichever of its steps fails.
C5_NewFailsExplicitly ==
    last.op = "new"
    => \/ last.kind = "Some" /\ ctx[last.c].state = "Active"
       \/ last.kind = "None" /\ ctx[last.c].state = "None"

\* C6: in every agree_ephemeral call whose shared-secret computation
\* succeeds the callback is invoked exactly once, on the bytes
\* compute_shared_key returns for that context and peer, and its return
\* value is the call's result.
C6_KdfOnce ==
    [][\A c \in Slots :
        (ctx[c].state = "Active" /\ ctx'[c].state = "Consumed")
        => LET secret == compute_shared_key(ctx[c], last'.arg)
           IN  /\ last'.op = "agree" /\ last'.c = c
               /\ (secret.kind = "Panic") = (last'.kind = "Panic")
               /\ secret.kind = "Ok"
                  => /\ last'.kdfCalls = 1
                     /\ last'.kdfArg = secret.val
                     /\ secret.val = to_bytes_be(ModExp(BeValue(last'.arg), ctx[c].a, ctx[c].p))
                     /\ last'.kind = (IF KdfApply(last'.kdf, secret.val).some
                                      THEN "Some" ELSE "None")
                     /\ last'.val = KdfApply(last'.kdf, secret.val).v]_vars

\* an agreement on a two-byte secret whose callback returned it
C6_Witness ==
    /\ last.op = "agree" /\ last.kind = "Some" /\ last.kdf = "copy"
    /\ last.kdfCalls = 1
    /\ Len(last.kdfArg) = 2
    /\ last.val = last.kdfArg

\* C7: the private exponent of every context is the first secret_len bytes
\* the random source delivered, read big-endian with the low bit of the last
\* byte set; it is odd, at least 1, and never changes while the context lives.
C7_PrivateExponent ==
    /\ [](\A c \in Slots :
            ctx[c].state = "Active" => ctx[c].a % 2 = 1 /\ ctx[c].a >= 1)
    /\ []((last.op = "new" /\ last.kind = "Some")
          => LET n == ParamByName(last.param).secret_len
                 bytes == [i \in 1..n |->
                             IF i = n THEN OrOne(last.arg[i]) ELSE last.arg[i]]
             IN  /\ last.rngok
                 /\ ctx[last.c].a = BeValue(bytes))
    /\ [][\A c \in Slots :
            (ctx[c].state = "Active" /\ ctx'[c].state = "Active")
            => ctx'[c].a = ctx[c].a]_vars

\* a context over the two-byte modulus whose random bytes were 01 02: the
\* exponent is 0x0103
C7_Witness ==
    /\ last.op = "new" /\ last.kind = "Some" /\ last.param = "p467"
    /\ last.arg = <<1, 2>>
    /\ ctx[last.c].a = 259

\* the secret_len and the target strength of the built-in tables
C8_Len(nm) ==
    CASE nm = "ffdhe2048" -> 30
      [] nm = "ffdhe3072" -> 36
      [] nm = "ffdhe4096" -> 42
      [] nm = "ffdhe6144" -> 48
      [] nm = "ffdhe8192" -> 52

C8_ClaimedLen(nm) ==
    CASE nm = "ffdhe2048" -> 29
      [] nm = "ffdhe3072" -> 36
      [] nm = "ffdhe4096" -> 43
      [] nm = "ffdhe6144" -> 49
      [] nm = "ffdhe8192" -> 52

C8_Strength(nm) ==
    CASE nm = "ffdhe2048" -> 225
      [] nm = "ffdhe3072" -> 275
      [] nm = "ffdhe4096" -> 325
      [] nm = "ffdhe6144" -> 375
      [] nm = "ffdhe8192" -> 400

\* C8 (amended): the secret_len of ffdhe2048, ffdhe3072, ffdhe4096, ffdhe6144
\* and ffdhe8192 is 30, 36, 42, 48 and 52 bytes, each floor(strength/8) + 2
\* for the strengths 225, 275, 325, 375 and 400, and each within the
\* MAX_SECRET_LEN bytes of the private-exponent buffer.
C8_SecretLen ==
    secretBuf.param # "-"
    => /\ secretBuf.kind # "Panic"
       /\ secretBuf.kind = "Ok"
          => /\ Len(secretBuf.bytes) = C8_Len(secretBuf.param)
             /\ Len(secretBuf.bytes) = (C8_Strength(secretBuf.param) \div 8) + 2
             /\ Len(secretBuf.bytes) <= MAX_SECRET_LEN

\* C8 (as claimed): the lengths are 29, 36, 43, 49 and 52, each
\* ceil(strength/8) + 2.
C8_SecretLenAsClaimed ==
    (secretBuf.param # "-" /\ secretBuf.kind = "Ok")
    => /\ Len(secretBuf.bytes) = C8_ClaimedLen(secretBuf.param)
       /\ Len(secretBuf.bytes) = ((C8_Strength(secretBuf.param) + 7) \div 8) + 2
       /\ Len(secretBuf.bytes) <= MAX_SECRET_LEN

\* the exponent bytes prepared for ffdhe2048
C8_Witness ==
    /\ secretBuf.param = "ffdhe2048" /\ secretBuf.kind = "Ok"
    /\ Len(secretBuf.bytes) = 30
    /\ secretBuf.bytes[30] % 2 = 1

\* C9: compute_shared_key on peer bytes of value 0, no longer than the
\* modulus, succeeds and returns the serialization of 0; peer bytes of value
\* 1 and p-1 are accepted too.
C9_ZeroPeer ==
    (last.op = "shared" /\ Len(last.arg) <= ctx[last.c].width)
    => /\ BeValue(last.arg) = 0
          => last.kind = "Ok" /\ last.val = to_bytes_be(0)
       /\ BeValue(last.arg) \in {1, ctx[last.c].p - 1}
          => last.kind = "Ok"

\* a zero peer as wide as the two-byte modulus, raised to an exponent above 1
C9_Witness ==
    /\ last.op = "shared" /\ last.kind = "Ok"
    /\ last.arg = <<0, 0>>
    /\ ctx[last.c].a > 1
    /\ last.val = <<0>>

\* C10: every compute_public_key and compute_shared_key call, returning or
\* not, leaves every context as it was, and what it returns is determined by
\* the context's a, ap and p and the call's argument alone: the public key is
\* the serialization of ap, the secret that of peer^a mod p.  Two calls with
\* the same argument therefore return the same bytes whatever was called in
\* between.
C10_Frame ==
    [][(last' # last /\ last'.op \in {"public", "shared"})
       => /\ ctx' = ctx
          /\ LET cx == ctx[last'.c]
             IN  /\ last'.op = "shared"
                    => /\ (last'.kind = "Ok") = Parseable(last'.arg, cx)
                       /\ last'.kind = "Ok"
                          => last'.val =
                               to_bytes_be(ModExp(BeValue(last'.arg), cx.a, cx.p))
                 /\ last'.op = "public"
                    => /\ (last'.kind = "Ok") = (Len(last'.arg) >= Len(to_bytes_be(cx.ap)))
                       /\ last'.kind = "Ok" => last'.val = to_bytes_be(cx.ap)]_vars

\* a two-byte secret returned by a context that still holds its values
C10_Witness ==
    /\ last.op = "shared" /\ last.kind = "Ok"
    /\ Len(last.val) = 2
    /\ ctx[last.c].state = "Active"
    /\ ctx[last.c].ap = ModExp(2, ctx[last.c].a, ctx[last.c].p)

====
